---- MODULE Spec2Model ----
(***************************************************************************)
(* Model of Simple3dStitching.cpp: MosMain sequences calls of the imaging  *)
(* library to restore two partial point clouds, register them in two       *)
(* passes (pre-registration, refinement) and merge them.                   *)
(*                                                                         *)
(* The program is one sequential thread; pc is its position in MosMain.    *)
(* The library is an external collaborator: what it returns (presence of a *)
(* file, a display identifier, point counts, a registration status) is     *)
(* drawn from small sets.  Everything MosMain itself decides (guards,      *)
(* order of calls, arguments, return value) is translated from the source. *)
(*                                                                         *)
(* Real numbers are kept exact: fractions of the box are integers counting *)
(* thousandths, an overlap percentage is a ratio [num, den].  A ratio with *)
(* den = 0 is the non-finite value an IEEE division by zero produces.      *)
(***************************************************************************)
EXTENDS Integers, Sequences, FiniteSets, TLC

\* ------------------------------------------------------------------------
\* Bounds of the model.

\* Largest number of valid points the statistics may report for a cloud.
MaxPoints == 3

\* ------------------------------------------------------------------------
\* Program constants.

eSource == 0
eTarget == 1
eStitched == 2

NB_POINT_CLOUD == 2

\* Indices of the two partial clouds: the range of the loops over p.
PartialClouds == 0 .. NB_POINT_CLOUD - 1

\* Millimetres.
EXTRACTION_BOX_SIZE_X == 170
EXTRACTION_BOX_SIZE_Y == 200
EXTRACTION_BOX_SIZE_Z == -66

\* 0.20, in thousandths.
BOX_OVERLAP == 200

\* Variant: the box used first is the wider one, 1.1 * BOX_OVERLAP.
BOX_USED_OVERLAP_Wider == (11 * BOX_OVERLAP) \div 10

\* 0.9 * BOX_OVERLAP, in thousandths.
BOX_USED_OVERLAP == (9 * BOX_OVERLAP) \div 10

DECIMATION_STEP == 8
\* Percent.
OVERLAP == 95
MAX_ITERATIONS == 100
\* 0.5 percent, in thousandths of a percent.
RMS_ERROR_RELATIVE_THRESHOLD == 500
ERROR_MINIMIZATION_METRIC == "M_POINT_TO_POINT"

NB_DISPLAY == 3

\* The two input files, indexed as FILE_SOURCE_POINT_CLOUD is.
FILE_SOURCE_POINT_CLOUD == {0, 1}

\* Values of M_STATUS_REGISTRATION_ELEMENT the switch of MosMain names, and
\* one value standing for every other value the library may return.
RegistrationStatuses ==
    { "M_NOT_INITIALIZED", "M_NOT_ENOUGH_POINT_PAIRS", "M_MAX_ITERATIONS_REACHED",
      "M_RMS_ERROR_THRESHOLD_REACHED", "M_RMS_ERROR_RELATIVE_THRESHOLD_REACHED",
      "M_OTHER_STATUS" }

\* ------------------------------------------------------------------------
\* State.

VARIABLES
    pc,                      \* position in MosMain
    FilePresent,             \* file system: is FILE_SOURCE_POINT_CLOUD[i] there
    Display3dAvailable,      \* system: does the d-th M3ddispAlloc succeed
    MilPointCloud,           \* the three containers
    MilCroppedPointCloud,    \* the two cropped containers
    MilDisplay,              \* display identifiers allocated so far
    SourceTotalNbPoints,     \* -1 until M3dimGetResult writes it
    SourceOverlapNbOfPoints, \* -1 until M3dmetGetResult writes it
    MilBox,                  \* the box geometry
    ctx,                     \* MilRegistrationContext and its subsample context
    ctxLocation,             \* the location set by M3dregSetLocation
    RegResults,              \* result objects, by identifier
    MilRegistrationResult,   \* identifier
    MilPreregistration,      \* identifier
    RegistrationStatus,      \* local of MosMain
    output,                  \* status reports printed by the switch
    rmsReads,                \* number of reads of M_RMS_ERROR
    exitCode,                \* process exit code, once terminated
    exitAt,                  \* the statement that ended the process
    stages,                  \* pipeline stages carried out, in order
    cropBoxes,               \* the box used by each crop stage, in order
    calcStatus               \* status produced by each M3dregCalculate, in order

vars ==
    << pc, FilePresent, Display3dAvailable, MilPointCloud, MilCroppedPointCloud,
       MilDisplay, SourceTotalNbPoints, SourceOverlapNbOfPoints, MilBox, ctx,
       ctxLocation, RegResults, MilRegistrationResult, MilPreregistration,
       RegistrationStatus, output, rmsReads, exitCode, exitAt, stages, cropBoxes,
       calcStatus >>

\* Variables of the environment: fixed by Init, read by the program.
env == << FilePresent, Display3dAvailable >>

\* History of the run, kept for stating properties.
hist == << stages, cropBoxes, calcStatus >>

Ratio(n, d) == [num |-> n, den |-> d]

NoBox == [x |-> 0, y |-> 0, z |-> 0]

NoLocation == [set |-> FALSE, element |-> 0, reference |-> 0, pass |-> 0]

\* A context before its controls are set: every control at the library default.
DefaultContext ==
    [ stepX |-> 0, stepY |-> 0, subsample |-> "M_DEFAULT", maxIterations |-> 0,
      rmsErrorRelativeThreshold |-> 0, metric |-> "M_DEFAULT",
      overlap |-> Ratio(0, 1), overlapSet |-> FALSE ]

Init ==
    /\ pc = "CheckFiles"
    /\ FilePresent \in [FILE_SOURCE_POINT_CLOUD -> BOOLEAN]
    /\ Display3dAvailable \in [0 .. NB_DISPLAY - 1 -> BOOLEAN]
    /\ MilPointCloud = [i \in {eSource, eTarget, eStitched} |-> "M_NULL"]
    /\ MilCroppedPointCloud = [i \in {eSource, eTarget} |-> [id |-> "M_NULL", box |-> NoBox, from |-> "M_NULL"]]
    /\ MilDisplay = << >>
    /\ SourceTotalNbPoints = -1
    /\ SourceOverlapNbOfPoints = -1
    /\ MilBox = NoBox
    /\ ctx = DefaultContext
    /\ ctxLocation = NoLocation
    /\ RegResults = [id \in {"result"} |-> [status |-> "M_NOT_INITIALIZED", pass |-> 0]]
    /\ MilRegistrationResult = "M_NULL"
    /\ MilPreregistration = "M_NULL"
    /\ RegistrationStatus = "M_NULL"
    /\ output = << >>
    /\ rmsReads = 0
    /\ exitCode = 0
    /\ exitAt = "running"
    /\ stages = << >>
    /\ cropBoxes = << >>
    /\ calcStatus = << >>

\* ------------------------------------------------------------------------
\* Helpers.

\* CheckForRequiredMILFile: TRUE exactly when the file is present.
CheckForRequiredMILFile(FileName) == FilePresent[FileName]

\* M3dgeoBox(M_CENTER_AND_DIMENSION, 0,0,0, X, Y * fraction, Z): dimensions in
\* thousandths of a millimetre.
M3dgeoBox(fraction) ==
    [ x |-> EXTRACTION_BOX_SIZE_X * 1000,
      y |-> EXTRACTION_BOX_SIZE_Y * fraction,
      z |-> EXTRACTION_BOX_SIZE_Z * 1000 ]

Terminate(code, at) ==
    /\ pc' = "Terminated"
    /\ exitCode' = code
    /\ exitAt' = at

\* ------------------------------------------------------------------------
\* MosMain, statement by statement.

\* Lines 104-107: the reference file is required; the target file is not checked.
CheckFiles ==
    /\ pc = "CheckFiles"
    /\ IF ~CheckForRequiredMILFile(0)
         THEN Terminate(-1, "return:106")
         ELSE /\ pc' = "AllocContainers"
              /\ UNCHANGED << exitCode, exitAt >>
    /\ UNCHANGED << env, hist, MilPointCloud, MilCroppedPointCloud, MilDisplay,
                    SourceTotalNbPoints, SourceOverlapNbOfPoints, MilBox, ctx,
                    ctxLocation, RegResults, MilRegistrationResult,
                    MilPreregistration, RegistrationStatus, output, rmsReads >>

\* Lines 114-120: the stitched container and the two cropped containers.
AllocContainers ==
    /\ pc = "AllocContainers"
    /\ MilPointCloud' = [MilPointCloud EXCEPT ![eStitched] = "allocated"]
    /\ MilCroppedPointCloud' =
         [i \in {eSource, eTarget} |-> [MilCroppedPointCloud[i] EXCEPT !.id = "allocated"]]
    /\ pc' = "RestoreClouds"
    /\ UNCHANGED << env, hist, MilDisplay, SourceTotalNbPoints,
                    SourceOverlapNbOfPoints, MilBox, ctx, ctxLocation, RegResults,
                    MilRegistrationResult, MilPreregistration, RegistrationStatus,
                    output, rmsReads, exitCode, exitAt >>

\* Lines 123-127: MbufRestore gives M_NULL for a file that is absent.
RestoreClouds ==
    /\ pc = "RestoreClouds"
    /\ MilPointCloud' =
         [i \in {eSource, eTarget, eStitched} |->
            IF i \in FILE_SOURCE_POINT_CLOUD
              THEN (IF FilePresent[i] THEN "restored" ELSE "M_NULL")
              ELSE MilPointCloud[i]]
    /\ pc' = "AllocDisplay"
    /\ UNCHANGED << env, hist, MilCroppedPointCloud, MilDisplay, SourceTotalNbPoints,
                    SourceOverlapNbOfPoints, MilBox, ctx, ctxLocation, RegResults,
                    MilRegistrationResult, MilPreregistration, RegistrationStatus,
                    output, rmsReads, exitCode, exitAt >>

\* Lines 135-149 with Alloc3dDisplayId (381-397): one iteration of the loop.
\* A display that cannot be allocated ends the process with exit(0).
AllocDisplay ==
    /\ pc = "AllocDisplay"
    /\ LET d == Len(MilDisplay) IN
         IF ~Display3dAvailable[d]
           THEN /\ Terminate(0, "exit:393")
                /\ UNCHANGED MilDisplay
           ELSE /\ MilDisplay' = Append(MilDisplay, "display")
                /\ pc' = IF d + 1 < NB_DISPLAY THEN "AllocDisplay" ELSE "SelectClouds"
                /\ UNCHANGED << exitCode, exitAt >>
    /\ UNCHANGED << env, hist, MilPointCloud, MilCroppedPointCloud,
                    SourceTotalNbPoints, SourceOverlapNbOfPoints, MilBox, ctx,
                    ctxLocation, RegResults, MilRegistrationResult,
                    MilPreregistration, RegistrationStatus, output, rmsReads >>

\* Lines 151-164: window placement and selection of the two clouds; no state
\* of the pipeline changes.
SelectClouds ==
    /\ pc = "SelectClouds"
    /\ pc' = "StatTotal"
    /\ UNCHANGED << env, hist, MilPointCloud, MilCroppedPointCloud, MilDisplay,
                    SourceTotalNbPoints, SourceOverlapNbOfPoints, MilBox, ctx,
                    ctxLocation, RegResults, MilRegistrationResult,
                    MilPreregistration, RegistrationStatus, output, rmsReads,
                    exitCode, exitAt >>

\* Lines 166-170: number of valid points of the reference cloud.
StatTotal ==
    /\ pc = "StatTotal"
    /\ \E n \in 0 .. MaxPoints : SourceTotalNbPoints' = n
    /\ pc' = "DefineBox"
    /\ UNCHANGED << env, hist, MilPointCloud, MilCroppedPointCloud, MilDisplay,
                    SourceOverlapNbOfPoints, MilBox, ctx, ctxLocation, RegResults,
                    MilRegistrationResult, MilPreregistration, RegistrationStatus,
                    output, rmsReads, exitCode, exitAt >>

\* Lines 172-192: the first box, its drawing, and the wait for <Enter>.
DefineBox ==
    /\ pc = "DefineBox"
    /\ MilBox' = M3dgeoBox(BOX_USED_OVERLAP)
    /\ pc' = "AllocRegistration"
    /\ UNCHANGED << env, hist, MilPointCloud, MilCroppedPointCloud, MilDisplay,
                    SourceTotalNbPoints, SourceOverlapNbOfPoints, ctx, ctxLocation,
                    RegResults, MilRegistrationResult, MilPreregistration,
                    RegistrationStatus, output, rmsReads, exitCode, exitAt >>

\* Lines 199-214: the context, the result, and the controls set once: the
\* subsampling steps, subsampling itself, the iteration cap, the relative RMS
\* threshold and the error metric.  M_OVERLAP is not among them.
AllocRegistration ==
    /\ pc = "AllocRegistration"
    /\ MilRegistrationResult' = "result"
    /\ ctx' = [ctx EXCEPT !.stepX = DECIMATION_STEP,
                          !.stepY = DECIMATION_STEP,
                          !.subsample = "M_ENABLE",
                          !.maxIterations = MAX_ITERATIONS,
                          !.rmsErrorRelativeThreshold = RMS_ERROR_RELATIVE_THRESHOLD,
                          !.metric = ERROR_MINIMIZATION_METRIC]
    /\ pc' = "Crop"
    /\ UNCHANGED << env, hist, MilPointCloud, MilCroppedPointCloud, MilDisplay,
                    SourceTotalNbPoints, SourceOverlapNbOfPoints, MilBox,
                    ctxLocation, RegResults, MilPreregistration,
                    RegistrationStatus, output, rmsReads, exitCode, exitAt >>

\* M3dimCrop of both clouds with the current box (the loops at 221-225 and
\* 250-255 have the same body).
M3dimCropAll ==
    /\ MilCroppedPointCloud' =
         [p \in PartialClouds |->
            [MilCroppedPointCloud[p] EXCEPT !.box = MilBox, !.from = MilPointCloud[p]]]
    /\ cropBoxes' = Append(cropBoxes, MilBox)
    /\ stages' = Append(stages, "crop")

\* Lines 220-227: the first crop, with the first box.
Crop ==
    /\ pc = "Crop"
    /\ M3dimCropAll
    /\ pc' = "SetOverlap"
    /\ UNCHANGED << env, calcStatus, MilPointCloud, MilDisplay, SourceTotalNbPoints,
                    SourceOverlapNbOfPoints, MilBox, ctx, ctxLocation, RegResults,
                    MilRegistrationResult, MilPreregistration, RegistrationStatus,
                    output, rmsReads, exitCode, exitAt >>

\* Line 230: the overlap of the pre-registration pass.
SetOverlap ==
    /\ pc = "SetOverlap"
    /\ ctx' = [ctx EXCEPT !.overlap = Ratio(OVERLAP, 1), !.overlapSet = TRUE]
    /\ pc' = "PreRegistration"
    /\ UNCHANGED << env, hist, MilPointCloud, MilCroppedPointCloud, MilDisplay,
                    SourceTotalNbPoints, SourceOverlapNbOfPoints, MilBox,
                    ctxLocation, RegResults, MilRegistrationResult,
                    MilPreregistration, RegistrationStatus, output, rmsReads,
                    exitCode, exitAt >>

\* M3dregCalculate into MilRegistrationResult: the library overwrites the result
\* object with the outcome of this pass.
M3dregCalculate(pass) ==
    \E s \in RegistrationStatuses :
        /\ RegResults' = [RegResults EXCEPT ![MilRegistrationResult] =
                                               [status |-> s, pass |-> pass]]
        /\ calcStatus' = Append(calcStatus, s)

\* Variant: the pre-registration status is inspected and a failed pass ends main.
PreRegistration_ReturnOnFailure ==
    /\ pc = "PreRegistration"
    /\ M3dregCalculate(1)
    /\ stages' = Append(stages, "pre-registration")
    /\ IF RegResults'[MilRegistrationResult].status
            \in {"M_NOT_INITIALIZED", "M_NOT_ENOUGH_POINT_PAIRS"}
         THEN Terminate(-1, "return:pre-registration")
         ELSE pc' = "AliasPreregistration" /\ UNCHANGED << exitCode, exitAt >>
    /\ UNCHANGED << env, cropBoxes, MilPointCloud, MilCroppedPointCloud, MilDisplay,
                    SourceTotalNbPoints, SourceOverlapNbOfPoints, MilBox, ctx,
                    ctxLocation, MilRegistrationResult, MilPreregistration,
                    RegistrationStatus, output, rmsReads >>

\* Lines 231-233: the pre-registration pass.  Its status is not read.
PreRegistration ==
    /\ pc = "PreRegistration"
    /\ M3dregCalculate(1)
    /\ stages' = Append(stages, "pre-registration")
    /\ pc' = "AliasPreregistration"
    /\ UNCHANGED << env, cropBoxes, MilPointCloud, MilCroppedPointCloud, MilDisplay,
                    SourceTotalNbPoints, SourceOverlapNbOfPoints, MilBox, ctx,
                    ctxLocation, MilRegistrationResult, MilPreregistration,
                    RegistrationStatus, output, rmsReads, exitCode, exitAt >>

\* Line 235: MilPreregistration is a copy of the identifier, not of the object.
AliasPreregistration ==
    /\ pc = "AliasPreregistration"
    /\ MilPreregistration' = MilRegistrationResult
    /\ pc' = "RedefineBox"
    /\ UNCHANGED << env, hist, MilPointCloud, MilCroppedPointCloud, MilDisplay,
                    SourceTotalNbPoints, SourceOverlapNbOfPoints, MilBox, ctx,
                    ctxLocation, RegResults, MilRegistrationResult,
                    RegistrationStatus, output, rmsReads, exitCode, exitAt >>

\* Lines 237-241: the second box.
RedefineBox ==
    /\ pc = "RedefineBox"
    /\ MilBox' = M3dgeoBox(BOX_OVERLAP)
    /\ pc' = "StatOverlap"
    /\ UNCHANGED << env, hist, MilPointCloud, MilCroppedPointCloud, MilDisplay,
                    SourceTotalNbPoints, SourceOverlapNbOfPoints, ctx, ctxLocation,
                    RegResults, MilRegistrationResult, MilPreregistration,
                    RegistrationStatus, output, rmsReads, exitCode, exitAt >>

\* Lines 243-247: number of points of the reference cloud inside the box; it
\* cannot exceed the number of valid points of that cloud.
StatOverlap ==
    /\ pc = "StatOverlap"
    /\ \E n \in 0 .. SourceTotalNbPoints : SourceOverlapNbOfPoints' = n
    /\ stages' = Append(stages, "statistics")
    /\ pc' = "Recrop"
    /\ UNCHANGED << env, cropBoxes, calcStatus, MilPointCloud, MilCroppedPointCloud,
                    MilDisplay, SourceTotalNbPoints, MilBox, ctx, ctxLocation,
                    RegResults, MilRegistrationResult, MilPreregistration,
                    RegistrationStatus, output, rmsReads, exitCode, exitAt >>

\* Lines 249-255: the second crop, with the second box.
Recrop ==
    /\ pc = "Recrop"
    /\ M3dimCropAll
    /\ pc' = "SetFullModelOverlap"
    /\ UNCHANGED << env, calcStatus, MilPointCloud, MilDisplay, SourceTotalNbPoints,
                    SourceOverlapNbOfPoints, MilBox, ctx, ctxLocation, RegResults,
                    MilRegistrationResult, MilPreregistration, RegistrationStatus,
                    output, rmsReads, exitCode, exitAt >>

\* Line 258: ((MIL_DOUBLE)SourceOverlapNbOfPoints / SourceTotalNbPoints) * OVERLAP.
\* The division is carried out whatever the divisor: with SourceTotalNbPoints
\* zero the quotient, and so the product, is not a finite number (den = 0).
FullModelOverlap(overlapNb, totalNb) == Ratio(overlapNb * OVERLAP, totalNb)

\* Variant: the refinement pass also switches subsampling off.
SetFullModelOverlap_FullClouds ==
    /\ pc = "SetFullModelOverlap"
    /\ ctx' = [ctx EXCEPT !.overlap = FullModelOverlap(SourceOverlapNbOfPoints,
                                                       SourceTotalNbPoints),
                          !.subsample = "M_DISABLE"]
    /\ pc' = "SetLocation"
    /\ UNCHANGED << env, hist, MilPointCloud, MilCroppedPointCloud, MilDisplay,
                    SourceTotalNbPoints, SourceOverlapNbOfPoints, MilBox,
                    ctxLocation, RegResults, MilRegistrationResult,
                    MilPreregistration, RegistrationStatus, output, rmsReads,
                    exitCode, exitAt >>

\* Lines 257-259: the overlap of the refinement pass replaces the first one.
SetFullModelOverlap ==
    /\ pc = "SetFullModelOverlap"
    /\ ctx' = [ctx EXCEPT !.overlap = FullModelOverlap(SourceOverlapNbOfPoints,
                                                       SourceTotalNbPoints)]
    /\ pc' = "SetLocation"
    /\ UNCHANGED << env, hist, MilPointCloud, MilCroppedPointCloud, MilDisplay,
                    SourceTotalNbPoints, SourceOverlapNbOfPoints, MilBox,
                    ctxLocation, RegResults, MilRegistrationResult,
                    MilPreregistration, RegistrationStatus, output, rmsReads,
                    exitCode, exitAt >>

\* Variant: the call of M3dregSetLocation is left out.
SetLocation_Omitted ==
    /\ pc = "SetLocation"
    /\ pc' = "Refinement"
    /\ UNCHANGED << env, hist, MilPointCloud, MilCroppedPointCloud, MilDisplay,
                    SourceTotalNbPoints, SourceOverlapNbOfPoints, MilBox, ctx,
                    ctxLocation, RegResults, MilRegistrationResult, MilPreregistration,
                    RegistrationStatus, output, rmsReads, exitCode, exitAt >>

\* Lines 261-262: M3dregSetLocation(context, eTarget, eSource, MilPreregistration):
\* the location of the target relative to the reference is read, now, from the
\* object MilPreregistration names.
SetLocation ==
    /\ pc = "SetLocation"
    /\ ctxLocation' = [ set |-> TRUE, element |-> eTarget, reference |-> eSource,
                        pass |-> RegResults[MilPreregistration].pass ]
    /\ pc' = "Refinement"
    /\ UNCHANGED << env, hist, MilPointCloud, MilCroppedPointCloud, MilDisplay,
                    SourceTotalNbPoints, SourceOverlapNbOfPoints, MilBox, ctx,
                    RegResults, MilRegistrationResult, MilPreregistration,
                    RegistrationStatus, output, rmsReads, exitCode, exitAt >>

\* Lines 264-274: the refinement pass, into the same result object.
Refinement ==
    /\ pc = "Refinement"
    /\ M3dregCalculate(2)
    /\ stages' = Append(stages, "refinement")
    /\ pc' = "GetStatus"
    /\ UNCHANGED << env, cropBoxes, MilPointCloud, MilCroppedPointCloud, MilDisplay,
                    SourceTotalNbPoints, SourceOverlapNbOfPoints, MilBox, ctx,
                    ctxLocation, MilRegistrationResult, MilPreregistration,
                    RegistrationStatus, output, rmsReads, exitCode, exitAt >>

\* Variant: a failed registration ends main with a nonzero code.
GetStatus_ReturnOnFailure ==
    /\ pc = "GetStatus"
    /\ RegistrationStatus' = RegResults[MilRegistrationResult].status
    /\ IF RegistrationStatus' \in {"M_NOT_INITIALIZED", "M_NOT_ENOUGH_POINT_PAIRS"}
         THEN Terminate(-1, "return:status")
         ELSE pc' = "InterpretStatus" /\ UNCHANGED << exitCode, exitAt >>
    /\ UNCHANGED << env, hist, MilPointCloud, MilCroppedPointCloud, MilDisplay,
                    SourceTotalNbPoints, SourceOverlapNbOfPoints, MilBox, ctx,
                    ctxLocation, RegResults, MilRegistrationResult,
                    MilPreregistration, output, rmsReads >>

\* Line 276: the status of the target element of the result object, which by
\* now holds the outcome of the refinement pass.
GetStatus ==
    /\ pc = "GetStatus"
    /\ RegistrationStatus' = RegResults[MilRegistrationResult].status
    /\ pc' = "InterpretStatus"
    /\ UNCHANGED << env, hist, MilPointCloud, MilCroppedPointCloud, MilDisplay,
                    SourceTotalNbPoints, SourceOverlapNbOfPoints, MilBox, ctx,
                    ctxLocation, RegResults, MilRegistrationResult,
                    MilPreregistration, output, rmsReads, exitCode, exitAt >>

\* Variant: the break of the M_MAX_ITERATIONS_REACHED case is missing, so the
\* case falls through into the success case.
StatusSwitch_Fallthrough(status) ==
    CASE status = "M_NOT_INITIALIZED" ->
           [print |-> << "failed: not initialized" >>, rms |-> 0]
      [] status = "M_NOT_ENOUGH_POINT_PAIRS" ->
           [print |-> << "failed: not overlapping" >>, rms |-> 0]
      [] status = "M_MAX_ITERATIONS_REACHED" ->
           [print |-> << "max iterations: may or may not be valid", "succeeded" >>,
            rms |-> 1]
      [] status \in {"M_RMS_ERROR_THRESHOLD_REACHED",
                     "M_RMS_ERROR_RELATIVE_THRESHOLD_REACHED"} ->
           [print |-> << "succeeded" >>, rms |-> 1]
      [] OTHER ->
           [print |-> << "unknown status" >>, rms |-> 0]

\* Lines 279-306: the switch on RegistrationStatus: what it prints and how
\* many times it reads M_RMS_ERROR from the result.
StatusSwitch(status) ==
    CASE status = "M_NOT_INITIALIZED" ->
           [print |-> << "failed: not initialized" >>, rms |-> 0]
      [] status = "M_NOT_ENOUGH_POINT_PAIRS" ->
           [print |-> << "failed: not overlapping" >>, rms |-> 0]
      [] status = "M_MAX_ITERATIONS_REACHED" ->
           [print |-> << "max iterations: may or may not be valid" >>, rms |-> 0]
      [] status \in {"M_RMS_ERROR_THRESHOLD_REACHED",
                     "M_RMS_ERROR_RELATIVE_THRESHOLD_REACHED"} ->
           [print |-> << "succeeded" >>, rms |-> 1]
      [] OTHER ->
           [print |-> << "unknown status" >>, rms |-> 0]

\* Lines 278-306.
InterpretStatus ==
    /\ pc = "InterpretStatus"
    /\ output' = output \o StatusSwitch(RegistrationStatus).print
    /\ rmsReads' = rmsReads + StatusSwitch(RegistrationStatus).rms
    /\ pc' = "ColorClouds"
    /\ UNCHANGED << env, hist, MilPointCloud, MilCroppedPointCloud, MilDisplay,
                    SourceTotalNbPoints, SourceOverlapNbOfPoints, MilBox, ctx,
                    ctxLocation, RegResults, MilRegistrationResult,
                    MilPreregistration, RegistrationStatus, exitCode, exitAt >>

\* Lines 311-322: the reflectance component of the two clouds is replaced by a
\* plain colour; the points are left as they are.
ColorClouds ==
    /\ pc = "ColorClouds"
    /\ pc' = "Merge"
    /\ UNCHANGED << env, hist, MilPointCloud, MilCroppedPointCloud, MilDisplay,
                    SourceTotalNbPoints, SourceOverlapNbOfPoints, MilBox, ctx,
                    ctxLocation, RegResults, MilRegistrationResult,
                    MilPreregistration, RegistrationStatus, output, rmsReads,
                    exitCode, exitAt >>

\* What M3dregMerge may leave in the stitched container.  With a result that
\* holds a transform and two restored clouds it is the merged cloud; otherwise
\* the library may as well report an error and leave the container as it was.
MergeOutcomes ==
    IF /\ RegResults[MilRegistrationResult].status
            \notin {"M_NOT_INITIALIZED", "M_NOT_ENOUGH_POINT_PAIRS"}
       /\ MilPointCloud[eSource] = "restored"
       /\ MilPointCloud[eTarget] = "restored"
      THEN {"merged"}
      ELSE {"merged", MilPointCloud[eStitched]}

\* Line 324: M3dregMerge is called whatever RegistrationStatus is.
Merge ==
    /\ pc = "Merge"
    /\ \E c \in MergeOutcomes :
          MilPointCloud' = [MilPointCloud EXCEPT ![eStitched] = c]
    /\ stages' = Append(stages, "merge")
    /\ pc' = "DisplayStitched"
    /\ UNCHANGED << env, cropBoxes, calcStatus, MilCroppedPointCloud, MilDisplay,
                    SourceTotalNbPoints, SourceOverlapNbOfPoints, MilBox, ctx,
                    ctxLocation, RegResults, MilRegistrationResult,
                    MilPreregistration, RegistrationStatus, output, rmsReads,
                    exitCode, exitAt >>

\* Lines 326-344: the stitched cloud and the box are displayed; wait for <Enter>.
DisplayStitched ==
    /\ pc = "DisplayStitched"
    /\ pc' = "FreeAndReturn"
    /\ UNCHANGED << env, hist, MilPointCloud, MilCroppedPointCloud, MilDisplay,
                    SourceTotalNbPoints, SourceOverlapNbOfPoints, MilBox, ctx,
                    ctxLocation, RegResults, MilRegistrationResult,
                    MilPreregistration, RegistrationStatus, output, rmsReads,
                    exitCode, exitAt >>

\* Lines 346-356: the objects are freed and main returns 0, whatever
\* RegistrationStatus is.
FreeAndReturn ==
    /\ pc = "FreeAndReturn"
    /\ MilDisplay' = << >>
    /\ Terminate(0, "return:356")
    /\ UNCHANGED << env, hist, MilPointCloud, MilCroppedPointCloud,
                    SourceTotalNbPoints, SourceOverlapNbOfPoints, MilBox, ctx,
                    ctxLocation, RegResults, MilRegistrationResult,
                    MilPreregistration, RegistrationStatus, output, rmsReads >>

Next ==
    \/ CheckFiles
    \/ AllocContainers
    \/ RestoreClouds
    \/ AllocDisplay
    \/ SelectClouds
    \/ StatTotal
    \/ DefineBox
    \/ AllocRegistration
    \/ Crop
    \/ SetOverlap
    \/ PreRegistration
    \/ AliasPreregistration
    \/ RedefineBox
    \/ StatOverlap
    \/ Recrop
    \/ SetFullModelOverlap
    \/ SetLocation
    \/ Refinement
    \/ GetStatus
    \/ InterpretStatus
    \/ ColorClouds
    \/ Merge
    \/ DisplayStitched
    \/ FreeAndReturn

Spec == Init /\ [][Next]_vars

\* ------------------------------------------------------------------------
\* Properties.

\* Statuses that carry no transform.
FailedStatuses == {"M_NOT_INITIALIZED", "M_NOT_ENOUGH_POINT_PAIRS"}

\* The stages of a complete run, in the order MosMain carries them out.
StageOrder ==
    << "crop", "pre-registration", "statistics", "crop", "refinement", "merge" >>

\* The run went through the end of MosMain.
Completed == pc = "Terminated" /\ exitAt = "return:356"

\* C1 (as claimed): merge is carried out, and a stitched cloud produced, only
\* after a final registration status that carries a valid transform.  Stated
\* for the runs where both input files are present.
C1_MergeOnlyAfterValidTransform ==
    (\A f \in FILE_SOURCE_POINT_CLOUD : FilePresent[f]) =>
        /\ (\E i \in 1 .. Len(stages) : stages[i] = "merge")
              => RegResults[MilRegistrationResult].status \notin FailedStatuses
        /\ MilPointCloud[eStitched] = "merged"
              => RegResults[MilRegistrationResult].status \notin FailedStatuses

\* C2 (as claimed): the exit code is 0 exactly when the run succeeded, for
\* every final registration status: nonzero when that status is
\* M_NOT_INITIALIZED or M_NOT_ENOUGH_POINT_PAIRS.  Stated for the runs where both
\* input files are present and that reach the end of main, which are the runs
\* that have a final registration status.
C2_ExitCodeZeroIffSuccess ==
    \A s \in RegistrationStatuses :
        ( /\ Completed
          /\ \A f \in FILE_SOURCE_POINT_CLOUD : FilePresent[f]
          /\ calcStatus[2] = s )
            => (exitCode = 0 <=> s \notin FailedStatuses)

\* C3 (as claimed): when either input file is absent, no cloud is restored and
\* no crop, registration or merge is carried out.
C3_MissingInputStopsBeforePipeline ==
    (\E f \in FILE_SOURCE_POINT_CLOUD : ~FilePresent[f]) =>
        /\ MilPointCloud[eSource] # "restored"
        /\ MilPointCloud[eTarget] # "restored"
        /\ stages = << >>

\* C4 (as claimed): the box of the first crop has a strictly greater Y extent
\* than the box of the second crop, with equal X and Z extents.
C4_FirstBoxWider ==
    Len(cropBoxes) = 2 =>
        /\ cropBoxes[1].y > cropBoxes[2].y
        /\ cropBoxes[1].x = cropBoxes[2].x
        /\ cropBoxes[1].z = cropBoxes[2].z

\* C4 (amended): the box of the first crop has a strictly smaller Y extent than
\* the box of the second crop, nine tenths of it, with equal X and Z extents.
C4_FirstBoxNarrower ==
    /\ Len(cropBoxes) <= 2
    /\ Len(cropBoxes) = 2 =>
        /\ cropBoxes[1].y < cropBoxes[2].y
        /\ 10 * cropBoxes[1].y = 9 * cropBoxes[2].y
        /\ cropBoxes[1].x = cropBoxes[2].x
        /\ cropBoxes[1].z = cropBoxes[2].z

C4_Witness ==
    /\ Len(cropBoxes) = 2
    /\ cropBoxes[1].y = 36000
    /\ cropBoxes[2].y = 40000
    /\ MilCroppedPointCloud[eSource].box = cropBoxes[2]

\* The controls of the context other than the overlap.
FixedControls(c) ==
    << c.stepX, c.stepY, c.subsample, c.maxIterations,
       c.rmsErrorRelativeThreshold, c.metric >>

\* C5 (as claimed): once the first crop stage has started, no step changes the
\* alignment configuration (subsampling step, iteration cap, relative RMS
\* threshold, overlap percentage, error metric).
C5_ConfigurationSetOnce ==
    [][stages # << >> => ctx' = ctx]_vars

\* C5 (amended): once the first crop stage has started, no step changes the
\* subsampling step, the iteration cap, the relative RMS threshold or the error
\* metric, which hold the values set before it; the overlap percentage is
\* changed, and only by the two statements that set it: to OVERLAP before the
\* pre-registration pass and to FullModelOverlap before the refinement pass.
C5_FixedControlsSetOnce ==
    [][stages # << >> =>
          /\ FixedControls(ctx') = FixedControls(ctx)
          /\ FixedControls(ctx) =
                << DECIMATION_STEP, DECIMATION_STEP, "M_ENABLE", MAX_ITERATIONS,
                   RMS_ERROR_RELATIVE_THRESHOLD, ERROR_MINIMIZATION_METRIC >>
          /\ (ctx' # ctx) =>
                \/ pc = "SetOverlap" /\ ctx'.overlap = Ratio(OVERLAP, 1)
                \/ /\ pc = "SetFullModelOverlap"
                   /\ ctx.overlap = Ratio(OVERLAP, 1)
                   /\ ctx'.overlap = Ratio(SourceOverlapNbOfPoints * OVERLAP,
                                           SourceTotalNbPoints)]_vars

C5_Witness ==
    /\ Completed
    /\ SourceTotalNbPoints = 2
    /\ ctx.overlap = Ratio(OVERLAP, 2)
    /\ ctx.maxIterations = MAX_ITERATIONS
    /\ ctx.subsample = "M_ENABLE"

\* C6 (as claimed): with SourceTotalNbPoints zero the refined overlap is not the
\* result of a division by zero, and the run reports M_NOT_ENOUGH_POINT_PAIRS.
C6_ZeroTotalIsGuarded ==
    SourceTotalNbPoints = 0 =>
        /\ ctx.overlap.den # 0
        /\ Completed => output = << "failed: not overlapping" >>

\* C7: the stages are carried out in the order crop, pre-registration,
\* statistics, crop, refinement, merge; the refinement pass is seeded with the
\* location read from the result object while it holds the outcome of the
\* pre-registration pass, before the refinement pass overwrites that object.
C7_StagesInOrderSeededByPreRegistration ==
    /\ Len(stages) <= Len(StageOrder)
    /\ stages = SubSeq(StageOrder, 1, Len(stages))
    /\ ctxLocation.set =>
          /\ ctxLocation.pass = 1
          /\ ctxLocation.element = eTarget
          /\ ctxLocation.reference = eSource
          /\ MilPreregistration = MilRegistrationResult
          /\ Len(stages) >= 4
    /\ Len(stages) >= 5 => ctxLocation.set
    /\ Len(stages) >= 2 =>
          RegResults[MilRegistrationResult].pass = (IF Len(stages) >= 5 THEN 2 ELSE 1)

C7_Witness ==
    /\ Completed
    /\ stages = StageOrder
    /\ RegResults[MilPreregistration].pass = 2
    /\ ctxLocation.pass = 1

\* C8 (as claimed): in every run where both input files are present the
\* process carries out the registration and merge stages and ends through the
\* end of main.
C8_OnlyMissingInputFatal ==
    (pc = "Terminated" /\ \A f \in FILE_SOURCE_POINT_CLOUD : FilePresent[f]) =>
        /\ exitAt = "return:356"
        /\ Len(stages) = Len(StageOrder)

\* C8 (amended): in every run where both input files are present and each of
\* the three 3D displays can be allocated, the process does not end before the
\* end of main, whatever the registration outcomes: when it has ended it has
\* carried out every stage up to merge and returned from the end of main, and
\* until then a next statement can always be taken.  A display that cannot be
\* allocated ends the process early, with exit code 0.
C8_OnlyMissingInputOrDisplayFatal ==
    /\ ( /\ pc = "Terminated"
         /\ \A f \in FILE_SOURCE_POINT_CLOUD : FilePresent[f]
         /\ \A d \in 0 .. NB_DISPLAY - 1 : Display3dAvailable[d] )
          => /\ exitAt = "return:356"
             /\ stages = StageOrder
    /\ exitAt \in {"running", "return:106", "exit:393", "return:356"}
    /\ exitAt = "exit:393" =>
          /\ exitCode = 0
          /\ \E d \in 0 .. NB_DISPLAY - 1 : ~Display3dAvailable[d]
    /\ exitAt = "return:106" => ~FilePresent[0]
    /\ pc # "Terminated" => ENABLED Next

C8_Witness ==
    /\ Completed
    /\ \A f \in FILE_SOURCE_POINT_CLOUD : FilePresent[f]
    /\ \A d \in 0 .. NB_DISPLAY - 1 : Display3dAvailable[d]
    /\ calcStatus = << "M_NOT_INITIALIZED", "M_NOT_ENOUGH_POINT_PAIRS" >>
    /\ stages = StageOrder

\* C9: a completed run has printed exactly one status report, decided by the
\* status of the refinement pass alone: failure for M_NOT_INITIALIZED and
\* M_NOT_ENOUGH_POINT_PAIRS, possibly invalid for M_MAX_ITERATIONS_REACHED,
\* success for the two RMS statuses, unknown for any other value; the RMS error
\* is read exactly for the two success statuses.
C9_OneReportFromRefinementStatus ==
    /\ Len(output) <= 1
    /\ Completed =>
          LET s == calcStatus[2] IN
          /\ Len(output) = 1
          /\ s = "M_NOT_INITIALIZED" => output[1] = "failed: not initialized"
          /\ s = "M_NOT_ENOUGH_POINT_PAIRS" => output[1] = "failed: not overlapping"
          /\ s = "M_MAX_ITERATIONS_REACHED" =>
                output[1] = "max iterations: may or may not be valid"
          /\ s \in {"M_RMS_ERROR_THRESHOLD_REACHED",
                    "M_RMS_ERROR_RELATIVE_THRESHOLD_REACHED"} =>
                output[1] = "succeeded"
          /\ s = "M_OTHER_STATUS" => output[1] = "unknown status"
          /\ rmsReads = (IF output[1] = "succeeded" THEN 1 ELSE 0)
    /\ ~Completed /\ pc = "Terminated" => output = << >>

C9_Witness ==
    /\ Completed
    /\ calcStatus = << "M_RMS_ERROR_THRESHOLD_REACHED", "M_MAX_ITERATIONS_REACHED" >>
    /\ output = << "max iterations: may or may not be valid" >>
    /\ rmsReads = 0

\* C10: whatever status the pre-registration pass produced, the program goes
\* on to set the refined overlap, to seed the refinement pass from the
\* pre-registration result and to run the second registration.
C10_PreRegistrationStatusNotInspected ==
    \A s \in RegistrationStatuses :
        (Len(calcStatus) >= 1 /\ calcStatus[1] = s) =>
            /\ pc # "Terminated" \/ exitAt = "return:356"
            /\ pc \in {"GetStatus", "Terminated"} =>
                  /\ Len(calcStatus) = 2
                  /\ ctx.overlap = Ratio(SourceOverlapNbOfPoints * OVERLAP,
                                         SourceTotalNbPoints)
                  /\ ctxLocation.set
                  /\ RegResults[MilRegistrationResult].pass = 2

C10_Witness ==
    /\ pc = "GetStatus"
    /\ calcStatus[1] = "M_NOT_ENOUGH_POINT_PAIRS"
    /\ Len(calcStatus) = 2
    /\ ctxLocation.set
    /\ RegResults[MilRegistrationResult].pass = 2

====
